---- MODULE Spec2Model ----
(***************************************************************************)
(* Model of the gqg envelope codec (src/src/lib.rs): encode and decode of  *)
(* authenticated, optionally compressed Message / File envelopes.          *)
(*                                                                         *)
(* Text is a sequence of Unicode scalar values, binary data a sequence of  *)
(* bytes 0..255.  The three libraries the codec calls are modelled by      *)
(* what they compute:                                                      *)
(*   base64        - RFC 4648 standard alphabet, padded output             *)
(*   lz4_compress  - LZ4 block format (token, literals, offset, match)     *)
(*   crypto::box_  - a commutative key agreement, a keyed stream and a     *)
(*                   16-byte tag placed before the ciphertext; keys 32     *)
(*                   bytes, nonces 24 bytes, top bit of a public key       *)
(*                   ignored                                               *)
(***************************************************************************)
EXTENDS Integers, Sequences, FiniteSets, TLC

----------------------------------------------------------------------------
(* Bytes and bits *)

Pow2(k) ==
  CASE k = 0 -> 1 [] k = 1 -> 2 [] k = 2 -> 4 [] k = 3 -> 8 [] k = 4 -> 16
    [] k = 5 -> 32 [] k = 6 -> 64 [] k = 7 -> 128 [] k = 8 -> 256
    [] k = 9 -> 512 [] k = 10 -> 1024 [] k = 11 -> 2048 [] OTHER -> 4096

Bit(a, k) == (a \div Pow2(k)) % 2

Xor(a, b) ==
  LET x(k) == ((Bit(a, k) + Bit(b, k)) % 2) * Pow2(k)
  IN  x(0) + x(1) + x(2) + x(3) + x(4) + x(5) + x(6) + x(7)

\* s[from..] and s[..to] of Rust, 0-based, end exclusive
Skip(s, n) == SubSeq(s, n + 1, Len(s))
Take(s, n) == SubSeq(s, 1, n)

starts_with(s, p) == Len(s) >= Len(p) /\ Take(s, Len(p)) = p
ends_with(s, p) == Len(s) >= Len(p) /\ Skip(s, Len(s) - Len(p)) = p

\* position of the first element of s satisfying s[i] = x, 0-based; -1 if none
RECURSIVE PositionFrom(_, _, _)
PositionFrom(s, x, i) ==
  IF i > Len(s) THEN -1
  ELSE IF s[i] = x THEN i - 1
  ELSE PositionFrom(s, x, i + 1)

position(s, x) == PositionFrom(s, x, 1)

\* str::find of a two-element pattern
FindPair(s, a, b) == \E i \in 1..(Len(s) - 1) : s[i] = a /\ s[i + 1] = b

----------------------------------------------------------------------------
(* Constants of the program *)

HEADER_MESSAGE == <<91, 71, 81, 71, 49, 45, 77, 69, 83, 83, 65, 71, 69>>
HEADER_FILE == <<91, 71, 81, 71, 49, 45, 70, 73, 76, 69>>
FOOTER == <<93>>
COLON == <<58>>

PUBLICKEYBYTES == 32
NONCEBYTES == 24
MACBYTES == 16
MaxFileName == 32

Err(e) == [ok |-> FALSE, err |-> e]
Panic == [ok |-> FALSE, err |-> "Panic"]

GqgError ==
  {"InvalidOuterEncoding", "InvalidInnerEncoding", "InvalidFileName",
   "AuthFailure", "DecompressFailure"}

----------------------------------------------------------------------------
(* base64 *)

B64Char(v) ==
  IF v < 26 THEN 65 + v
  ELSE IF v < 52 THEN 97 + (v - 26)
  ELSE IF v < 62 THEN 48 + (v - 52)
  ELSE IF v = 62 THEN 43 ELSE 47

B64Val(c) ==
  IF c >= 65 /\ c <= 90 THEN c - 65
  ELSE IF c >= 97 /\ c <= 122 THEN c - 97 + 26
  ELSE IF c >= 48 /\ c <= 57 THEN c - 48 + 52
  ELSE IF c = 43 THEN 62
  ELSE IF c = 47 THEN 63
  ELSE -1

\* base64::encode: the k-th sextet (0-based) of the bit stream, '=' padding
base64_encode(bytes) ==
  LET n == Len(bytes)
      syms == (8 * n + 5) \div 6
      total == 4 * ((n + 2) \div 3)
      byteAt(i) == IF i + 1 <= n THEN bytes[i + 1] ELSE 0
      sextet(k) ==
        LET j == (6 * k) \div 8
            off == (6 * k) % 8
        IN  ((byteAt(j) * 256 + byteAt(j + 1)) \div Pow2(10 - off)) % 64
  IN  [i \in 1..total |-> IF i <= syms THEN B64Char(sextet(i - 1)) ELSE 61]

\* number of trailing '=' of a text
RECURSIVE TrailingPad(_)
TrailingPad(t) ==
  IF Len(t) > 0 /\ t[Len(t)] = 61 THEN 1 + TrailingPad(Take(t, Len(t) - 1)) ELSE 0

\* base64::decode: the symbols must be of the alphabet, padding only at the
\* end and no more than completes the last quantum, no lone trailing symbol,
\* and the unused bits of the last symbol zero.
base64_decode(t) ==
  LET p == TrailingPad(t)
      m == Len(t) - p
      v == [i \in 1..m |-> B64Val(t[i])]
      n == (6 * m) \div 8
      valAt(i) == IF i + 1 <= m THEN v[i + 1] ELSE 0
      byte(j) ==
        LET s == (8 * j) \div 6
            off == (8 * j) % 6
        IN  ((valAt(s) * 64 + valAt(s + 1)) \div Pow2(4 - off)) % 256
      spare == IF m % 4 = 2 THEN v[m] % 16 ELSE IF m % 4 = 3 THEN v[m] % 4 ELSE 0
  IN  IF \E i \in 1..m : v[i] < 0 THEN Err("InvalidByte")
      ELSE IF m % 4 = 1 THEN Err("InvalidLength")
      ELSE IF p > 0 /\ (m % 4 = 0 \/ p > 4 - (m % 4)) THEN Err("InvalidByte")
      ELSE IF m > 0 /\ spare # 0 THEN Err("InvalidLastSymbol")
      ELSE [ok |-> TRUE, bytes |-> [j \in 1..n |-> byte(j - 1)]]

----------------------------------------------------------------------------
(* std::str::from_utf8: well-formed UTF-8 *)

IsCont(b) == b >= 128 /\ b <= 191

RECURSIVE Utf8From(_, _)
Utf8From(s, i) ==
  IF i > Len(s) THEN TRUE
  ELSE
    LET b == s[i]
        c(k) == IF i + k <= Len(s) THEN s[i + k] ELSE -1
    IN  IF b < 128 THEN Utf8From(s, i + 1)
        ELSE IF b >= 194 /\ b <= 223 THEN IsCont(c(1)) /\ Utf8From(s, i + 2)
        ELSE IF b = 224 THEN
          c(1) >= 160 /\ c(1) <= 191 /\ IsCont(c(2)) /\ Utf8From(s, i + 3)
        ELSE IF b = 237 THEN
          c(1) >= 128 /\ c(1) <= 159 /\ IsCont(c(2)) /\ Utf8From(s, i + 3)
        ELSE IF b >= 225 /\ b <= 239 THEN
          IsCont(c(1)) /\ IsCont(c(2)) /\ Utf8From(s, i + 3)
        ELSE IF b = 240 THEN
          c(1) >= 144 /\ c(1) <= 191 /\ IsCont(c(2)) /\ IsCont(c(3))
          /\ Utf8From(s, i + 4)
        ELSE IF b = 244 THEN
          c(1) >= 128 /\ c(1) <= 143 /\ IsCont(c(2)) /\ IsCont(c(3))
          /\ Utf8From(s, i + 4)
        ELSE IF b >= 241 /\ b <= 243 THEN
          IsCont(c(1)) /\ IsCont(c(2)) /\ IsCont(c(3)) /\ Utf8From(s, i + 4)
        ELSE FALSE

from_utf8_ok(s) == Utf8From(s, 1)

----------------------------------------------------------------------------
(* File names and whitespace *)

\* validate_file_name without the test for ".."
validate_file_name_no_dots(file_name) ==
  IF Len(file_name) > MaxFileName THEN FALSE
  ELSE IF Len(file_name) = 0 THEN FALSE
  ELSE IF position(file_name, 47) >= 0 THEN FALSE
  ELSE IF position(file_name, 92) >= 0 THEN FALSE
  ELSE TRUE

\* fn validate_file_name: the name as its UTF-8 bytes ('/' 47, '\' 92, '.' 46)
validate_file_name(file_name) ==
  IF Len(file_name) > MaxFileName THEN FALSE
  ELSE IF Len(file_name) = 0 THEN FALSE
  ELSE IF position(file_name, 47) >= 0 THEN FALSE
  ELSE IF position(file_name, 92) >= 0 THEN FALSE
  ELSE IF FindPair(file_name, 46, 46) THEN FALSE
  ELSE TRUE

\* remove_whitespace with char::is_ascii_whitespace for char::is_whitespace
remove_whitespace_ascii(s) == SelectSeq(s, LAMBDA c : c \notin {9, 10, 12, 13, 32})

\* char::is_whitespace: the Unicode White_Space property
is_whitespace(c) ==
  \/ c >= 9 /\ c <= 13
  \/ c \in {32, 133, 160, 5760, 8232, 8233, 8239, 8287, 12288}
  \/ c >= 8192 /\ c <= 8202

\* fn remove_whitespace: s.retain(|c| !c.is_whitespace())
remove_whitespace(s) == SelectSeq(s, LAMBDA c : ~is_whitespace(c))

----------------------------------------------------------------------------
(* lz4_compress: the LZ4 block format *)

\* The 4-byte batch at 0-based position n
get_batch(input, n) == SubSeq(input, n + 1, n + 4)

remaining_batch(input, cur) == cur + 4 < Len(input)

\* The dictionary maps a batch to the last position it was seen at (the
\* crate keys a 4096-entry table by a hash of the batch and verifies the
\* candidate; the model keys it by the batch).
insert_cursor(input, cur, dict) ==
  IF remaining_batch(input, cur)
  THEN [b \in DOMAIN dict \cup {get_batch(input, cur)} |->
          IF b = get_batch(input, cur) THEN cur ELSE dict[b]]
  ELSE dict

RECURSIVE go_forward(_, _, _, _)
go_forward(input, cur, dict, steps) ==
  IF steps = 0 THEN [cur |-> cur, dict |-> dict]
  ELSE go_forward(input, cur + 1, insert_cursor(input, cur, dict), steps - 1)

\* number of equal leading elements of input[a..] and input[b..] (0-based)
RECURSIVE CommonPrefix(_, _, _)
CommonPrefix(input, a, b) ==
  IF a + 1 > Len(input) \/ b + 1 > Len(input) THEN 0
  ELSE IF input[a + 1] # input[b + 1] THEN 0
  ELSE 1 + CommonPrefix(input, a + 1, b + 1)

NoDup == [found |-> FALSE]

find_duplicate(input, cur, dict) ==
  IF ~remaining_batch(input, cur) THEN NoDup
  ELSE IF get_batch(input, cur) \in DOMAIN dict
          /\ cur - dict[get_batch(input, cur)] <= 65535
  THEN [found |-> TRUE,
        offset |-> cur - dict[get_batch(input, cur)],
        extra_bytes |-> CommonPrefix(input, cur + 4,
                                     dict[get_batch(input, cur)] + 4)]
  ELSE NoDup

RECURSIVE pop_block(_, _, _, _)
pop_block(input, cur, dict, lit) ==
  LET dup == find_duplicate(input, cur, dict)
  IN  IF dup.found
      THEN LET f == go_forward(input, cur, dict, dup.extra_bytes + 4)
           IN  [lit_len |-> lit, dup |-> dup, cur |-> f.cur, dict |-> f.dict]
      ELSE LET f == go_forward(input, cur, dict, 1)
           IN  IF ~(f.cur <= Len(input))
               THEN [lit_len |-> lit, dup |-> NoDup, cur |-> f.cur, dict |-> f.dict]
               ELSE pop_block(input, f.cur, f.dict, lit + 1)

\* LSIC: a length beyond 15 as a run of 255s and a final byte
RECURSIVE write_integer(_)
write_integer(n) == IF n >= 255 THEN <<255>> \o write_integer(n - 255) ELSE <<n>>

RECURSIVE CompressFrom(_, _, _)
CompressFrom(input, cur, dict) ==
  LET start == cur
      block == pop_block(input, cur, dict, 0)
      dup_extra_len == IF block.dup.found THEN block.dup.extra_bytes ELSE 0
      hi == IF block.lit_len < 15 THEN block.lit_len * 16 ELSE 240
      lo == IF dup_extra_len < 15 THEN dup_extra_len ELSE 15
      head ==
        <<hi + lo>>
        \o (IF block.lit_len >= 15 THEN write_integer(block.lit_len - 15) ELSE <<>>)
        \o SubSeq(input, start + 1, start + block.lit_len)
  IN  IF block.dup.found
      THEN head
           \o <<block.dup.offset % 256, block.dup.offset \div 256>>
           \o (IF dup_extra_len >= 15 THEN write_integer(dup_extra_len - 15) ELSE <<>>)
           \o CompressFrom(input, block.cur, block.dict)
      ELSE head

\* lz4_compress::compress
compress(input) == CompressFrom(input, 0, << >>)

\* read_integer: [ok, n, rest]
RECURSIVE read_integer(_, _)
read_integer(input, n) ==
  IF Len(input) = 0 THEN [ok |-> FALSE]
  ELSE IF input[1] = 255 THEN read_integer(Tail(input), n + 255)
  ELSE [ok |-> TRUE, n |-> n + input[1], rest |-> Tail(input)]

\* duplicate: copies byte by byte, so that the copy may overlap its source
RECURSIVE duplicate(_, _, _)
duplicate(output, start, match_length) ==
  IF match_length = 0 THEN output
  ELSE duplicate(Append(output, output[start + 1]), start + 1, match_length - 1)

RECURSIVE DecompressFrom(_, _)
DecompressFrom(input, output) ==
  IF Len(input) = 0 THEN [ok |-> TRUE, bytes |-> output]
  ELSE
    LET token == input[1]
        in1 == Tail(input)
        lit0 == token \div 16
        litx == IF lit0 = 15 THEN read_integer(in1, 0)
                ELSE [ok |-> TRUE, n |-> 0, rest |-> in1]
    IN  IF ~litx.ok THEN Err("ExpectedAnotherByte")
        ELSE
          LET literal == lit0 + litx.n
              in2 == litx.rest
          IN  IF literal > Len(in2) THEN Err("ExpectedAnotherByte")
              ELSE
                LET out1 == output \o Take(in2, literal)
                    in3 == Skip(in2, literal)
                IN  IF Len(in3) = 0 THEN [ok |-> TRUE, bytes |-> out1]
                    ELSE IF Len(in3) < 2 THEN Err("ExpectedAnotherByte")
                    ELSE
                      LET offset == in3[1] + 256 * in3[2]
                          in4 == Skip(in3, 2)
                          m0 == 4 + (token % 16)
                          mx == IF m0 = 19 THEN read_integer(in4, 0)
                                ELSE [ok |-> TRUE, n |-> 0, rest |-> in4]
                      IN  IF ~mx.ok THEN Err("ExpectedAnotherByte")
                          ELSE IF offset = 0 \/ offset > Len(out1)
                          THEN Err("OffsetOutOfBounds")
                          ELSE DecompressFrom(
                                 mx.rest,
                                 duplicate(out1, Len(out1) - offset, m0 + mx.n))

\* lz4_compress::decompress
decompress(input) == DecompressFrom(input, <<>>)

----------------------------------------------------------------------------
(* crypto::box_ *)

\* A secret key is an odd scalar, a public key 32 bytes.  The top bit of
\* the last byte of a public key is ignored by the key agreement.
BasePoint == [j \in 1..PUBLICKEYBYTES |-> 2 * j + 1]

scalarmult(n, p) ==
  [j \in 1..PUBLICKEYBYTES |->
     IF j = PUBLICKEYBYTES THEN (n * (p[j] % 128)) % 128 ELSE (n * p[j]) % 256]

\* SecretKey::public_key
public_key(sk) == scalarmult(sk, BasePoint)

\* the key shared by (pk, sk): precompute(pkA, skB) = precompute(pkB, skA)
precompute(pk, sk) == scalarmult(sk, pk)

\* the i-th byte (1-based) of the stream under key k and nonce n
stream(k, n, i) ==
  (k[((i - 1) % PUBLICKEYBYTES) + 1] + n[((i - 1) % NONCEBYTES) + 1] + i) % 256

RECURSIVE Column(_, _)
Column(c, i) ==
  IF i > Len(c) THEN 0 ELSE (c[i] + 3 * Column(c, i + MACBYTES)) % 256

\* the 16-byte tag of ciphertext c under key k and nonce n
authenticator(c, n, k) ==
  [j \in 1..MACBYTES |->
     (k[j] + 3 * k[j + MACBYTES] + 5 * n[j]
        + (IF j + MACBYTES <= NONCEBYTES THEN 7 * n[j + MACBYTES] ELSE 0)
        + Len(c) + Column(c, j)) % 256]

\* crypto::box_::seal: tag || ciphertext
box_seal(m, n, pk, sk) ==
  LET k == precompute(pk, sk)
      c == [i \in 1..Len(m) |-> Xor(m[i], stream(k, n, i))]
  IN  authenticator(c, n, k) \o c

\* box_open that decrypts without verifying the tag
box_open_unverified(c, n, pk, sk) ==
  IF Len(c) < MACBYTES THEN Err("()")
  ELSE
    LET k == precompute(pk, sk)
        body == Skip(c, MACBYTES)
    IN  [ok |-> TRUE,
         bytes |-> [i \in 1..Len(body) |-> Xor(body[i], stream(k, n, i))]]

\* crypto::box_::open: the plaintext, or Err(()) when the tag does not verify
box_open(c, n, pk, sk) ==
  IF Len(c) < MACBYTES THEN Err("()")
  ELSE
    LET k == precompute(pk, sk)
        body == Skip(c, MACBYTES)
    IN  IF Take(c, MACBYTES) # authenticator(body, n, k) THEN Err("()")
        ELSE [ok |-> TRUE,
              bytes |-> [i \in 1..Len(body) |-> Xor(body[i], stream(k, n, i))]]

----------------------------------------------------------------------------
(* pub fn encode *)

TypeMessage == [file |-> FALSE]
TypeFile(file_name) == [file |-> TRUE, file_name |-> file_name]

\* the datastream that is sealed: [file_name 0x00] tag body
datastream(typ, flags, data) ==
  (IF typ.file THEN typ.file_name \o <<0>> ELSE <<>>)
  \o (IF flags = "None" THEN <<0>> \o data ELSE <<1>> \o compress(data))

frame(is_file, payload) ==
  (IF is_file THEN HEADER_FILE ELSE HEADER_MESSAGE)
  \o COLON \o base64_encode(payload) \o FOOTER

\* nonce is the value gen_nonce() returns in this call
encode(from, to, typ, flags, data, nonce) ==
  IF typ.file /\ ~validate_file_name(typ.file_name)
  THEN Err("InvalidFileName")
  ELSE [ok |-> TRUE,
        ascii |-> frame(typ.file,
                        public_key(from) \o nonce
                          \o box_seal(datastream(typ, flags, data), nonce, to, from))]

\* the steps an encode call goes through, in order
encode_steps(typ) ==
  IF typ.file /\ ~validate_file_name(typ.file_name)
  THEN <<"validate_file_name">>
  ELSE (IF typ.file THEN <<"validate_file_name">> ELSE <<>>)
       \o <<"pack", "gen_nonce", "seal", "frame">>

----------------------------------------------------------------------------
(* pub fn decode *)

\* lines 124-136: the header token
parse_header(payload) ==
  IF starts_with(payload, HEADER_MESSAGE)
  THEN [ok |-> TRUE, is_file |-> FALSE, rest |-> Skip(payload, Len(HEADER_MESSAGE))]
  ELSE IF starts_with(payload, HEADER_FILE)
  THEN [ok |-> TRUE, is_file |-> TRUE, rest |-> Skip(payload, Len(HEADER_FILE))]
  ELSE Err("InvalidOuterEncoding")

\* unframe that skips the character after the header without looking at it
unframe_any_separator(payload) ==
  IF ~ends_with(payload, FOOTER) THEN Err("InvalidOuterEncoding")
  ELSE IF Len(payload) < 1 THEN Panic
  ELSE
    LET p1 == Take(payload, Len(payload) - 1)
    IN  IF Len(p1) < 1 THEN Panic
        ELSE
          LET raw == base64_decode(Skip(p1, 1))
          IN  IF ~raw.ok THEN Err("InvalidOuterEncoding") ELSE raw

\* lines 137-145: footer, colon, base64.  A slice out of range is a panic.
unframe(payload) ==
  IF ~ends_with(payload, FOOTER) THEN Err("InvalidOuterEncoding")
  ELSE IF Len(payload) < 1 THEN Panic
  ELSE
    LET p1 == Take(payload, Len(payload) - 1)
    IN  IF ~starts_with(p1, COLON) THEN Err("InvalidOuterEncoding")
        ELSE IF Len(p1) < 1 THEN Panic
        ELSE
          LET raw == base64_decode(Skip(p1, 1))
          IN  IF ~raw.ok THEN Err("InvalidOuterEncoding") ELSE raw

\* split_payload without the length test before the nonce is sliced
split_payload_unchecked(payload) ==
  IF Len(payload) < PUBLICKEYBYTES THEN Err("InvalidOuterEncoding")
  ELSE IF Len(payload) < PUBLICKEYBYTES THEN Panic
  ELSE
    LET p1 == Skip(payload, PUBLICKEYBYTES)
    IN  IF Len(p1) < NONCEBYTES THEN Panic
        ELSE [ok |-> TRUE,
              sender |-> Take(payload, PUBLICKEYBYTES),
              nonce |-> Take(p1, NONCEBYTES),
              boxed |-> Skip(p1, NONCEBYTES)]

\* lines 146-155: sender public key, nonce, sealed box
split_payload(payload) ==
  IF Len(payload) < PUBLICKEYBYTES THEN Err("InvalidOuterEncoding")
  ELSE IF Len(payload) < PUBLICKEYBYTES THEN Panic
  ELSE
    LET p1 == Skip(payload, PUBLICKEYBYTES)
    IN  IF Len(p1) < NONCEBYTES THEN Err("InvalidOuterEncoding")
        ELSE IF Len(p1) < NONCEBYTES THEN Panic
        ELSE [ok |-> TRUE,
              sender |-> Take(payload, PUBLICKEYBYTES),
              nonce |-> Take(p1, NONCEBYTES),
              boxed |-> Skip(p1, NONCEBYTES)]

\* line 156
open_payload(boxed, nonce, sender, myself) ==
  LET opened == box_open(boxed, nonce, sender, myself)
  IN  IF ~opened.ok THEN Err("InvalidOuterEncoding") ELSE opened

\* lines 159-168: the file name section
read_file_name(is_file, payload) ==
  IF is_file
  THEN LET separator == position(payload, 0)
       IN  IF separator < 0 THEN Err("InvalidOuterEncoding")
           ELSE IF ~from_utf8_ok(Take(payload, separator)) THEN Err("InvalidFileName")
           ELSE [ok |-> TRUE, file |-> TRUE,
                 file_name |-> Take(payload, separator),
                 rest |-> Skip(payload, separator + 1)]
  ELSE [ok |-> TRUE, file |-> FALSE, rest |-> payload]

\* read_contents that takes every tag but 0 for compressed
read_contents_any_tag(payload) ==
  IF Len(payload) < 1 THEN Err("InvalidInnerEncoding")
  ELSE IF payload[1] = 0 THEN [ok |-> TRUE, bytes |-> Skip(payload, 1)]
  ELSE LET d == decompress(Skip(payload, 1))
       IN  IF ~d.ok THEN Err("DecompressFailure") ELSE d

\* lines 169-181: the tag byte and the contents
read_contents(payload) ==
  IF Len(payload) < 1 THEN Err("InvalidInnerEncoding")
  ELSE IF payload[1] = 0 THEN [ok |-> TRUE, bytes |-> Skip(payload, 1)]
  ELSE IF payload[1] = 1
  THEN LET d == decompress(Skip(payload, 1))
       IN  IF ~d.ok THEN Err("DecompressFailure") ELSE d
  ELSE Err("InvalidInnerEncoding")

\* lines 157-191
unpack(sender, is_file, payload) ==
  LET name == read_file_name(is_file, payload)
  IN  IF ~name.ok THEN name
      ELSE
        LET contents == read_contents(name.rest)
        IN  IF ~contents.ok THEN contents
            ELSE [ok |-> TRUE,
                  sender |-> sender,
                  data |-> IF name.file
                           THEN [file |-> TRUE, file_name |-> name.file_name,
                                 contents |-> contents.bytes]
                           ELSE [file |-> FALSE, contents |-> contents.bytes]]

decode(myself, text) ==
  LET head == parse_header(remove_whitespace(text))
  IN  IF ~head.ok THEN head
      ELSE
        LET raw == unframe(head.rest)
        IN  IF ~raw.ok THEN raw
            ELSE
              LET parts == split_payload(raw.bytes)
              IN  IF ~parts.ok THEN parts
                  ELSE
                    LET opened == open_payload(parts.boxed, parts.nonce,
                                               parts.sender, myself)
                    IN  IF ~opened.ok THEN opened
                        ELSE unpack(parts.sender, head.is_file, opened.bytes)

----------------------------------------------------------------------------
(* The inputs the calls are made with *)

MaxDataLen == 1
MaxForgeLen == 2
MaxSpaces == 1

BoundedSeq(S, n) == UNION {[1..k -> S] : k \in 0..n}

SecretKeys == {3, 5}
PublicKeys == {public_key(sk) : sk \in SecretKeys}

\* the values gen_nonce() may return
NonceOf(seed) == [j \in 1..NONCEBYTES |-> (seed * j + 7) % 256]
Nonces == {NonceOf(1), NonceOf(2)}

Repeat(x, n) == [i \in 1..n |-> x]

DataBytes == {0, 1, 65}
LongData == {Repeat(65, 8), <<65, 66, 65, 66, 65, 66, 65, 66, 65, 66>>}
Data == BoundedSeq(DataBytes, MaxDataLen) \cup LongData

\* "A", NUL, "a.b", 32 x "a";  "", 33 x "a", "a/b", "a\b", "..", "A.."
ValidNames == {<<65>>, <<0>>, <<97, 46, 98>>, Repeat(97, MaxFileName)}
InvalidNames ==
  {<<>>, Repeat(97, MaxFileName + 1), <<97, 47, 98>>, <<97, 92, 98>>,
   <<46, 46>>, <<65, 46, 46>>}
Types == {TypeMessage} \cup {TypeFile(n) : n \in ValidNames \cup InvalidNames}

EncodeFlags == {"None", "Compressed"}

\* plaintexts a sender that is not this encoder may seal
ForgeBytes == {0, 1, 2, 16, 65, 255}
ForgedPlain ==
  BoundedSeq(ForgeBytes, MaxForgeLen)
  \cup {<<47, 0, 0, 65>>, <<46, 46, 0, 0>>, <<65, 0, 1, 16, 65>>, <<65, 0, 1, 16>>,
        <<1, 19, 65, 1, 0, 0>>, <<1, 19, 65, 2, 0, 0>>, <<65, 0>>, <<255, 0, 0>>,
        <<195, 169, 0, 0, 65>>, <<65, 0, 2, 65>>, <<1, 240>>, <<1, 15, 1, 0>>}

\* texts that are no envelope: "[GQG1-ENCRYPTED-MESSAGE" and the like
ENCRYPTED == <<69, 78, 67, 82, 89, 80, 84, 69, 68, 45>>
Tails == {<<>>, FOOTER, COLON \o FOOTER, <<58, 58>> \o FOOTER,
          <<58, 58, 58>> \o FOOTER, <<58, 58, 58>>, COLON,
          COLON \o <<65, 65, 65, 65>> \o FOOTER, COLON \o <<42>> \o FOOTER}
RawTexts ==
  {<<>>, FOOTER, <<32>>, <<227, 93>>}
  \cup {h \o t : h \in {HEADER_MESSAGE, HEADER_FILE}, t \in Tails}
  \cup {Take(h, 6) \o ENCRYPTED \o Skip(h, 6) \o t :
          h \in {HEADER_MESSAGE, HEADER_FILE}, t \in Tails}

\* lengths a payload is cut to: below the key, below key + nonce, below the tag
ShortLens == {0, 1, 31, 32, 33, 55, 56, 71}
Mangles ==
  {[how |-> h] : h \in {"nofooter", "nocolon", "badcolon", "foreign", "lower", "badb64"}}
  \cup {[how |-> "short", len |-> k] : k \in ShortLens}

WhiteSpaces == {10, 12288}

----------------------------------------------------------------------------
(* State *)

VARIABLES
  call,     \* the call that made the text in transit
  encoded,  \* what the last encode call returned
  steps,    \* the steps the last encode call went through
  kind,     \* where the text in transit comes from
  mut,      \* what was done to the text after it was made
  clean,    \* the text in transit before whitespace was inserted
  wire,     \* the text in transit
  decoded   \* the last decode call: its key and what it returned

vars == <<call, encoded, steps, kind, mut, clean, wire, decoded>>

NoCall == [op |-> "none"]
NoResult == [ok |-> FALSE, err |-> "NotCalled"]
NoMut == [how |-> "none"]
NotDecoded == [done |-> FALSE]

Init ==
  /\ call = NoCall
  /\ encoded = NoResult
  /\ steps = <<>>
  /\ kind = "none"
  /\ mut = NoMut
  /\ clean = <<>>
  /\ wire = <<>>
  /\ decoded = NotDecoded

\* a call of encode; nonce is what gen_nonce() returns in it
Encode(from, to, typ, flags, data, nonce) ==
  LET r == encode(from, to, typ, flags, data, nonce)
  IN  /\ call = NoCall
      /\ call' = [op |-> "encode", from |-> from, to |-> to, typ |-> typ,
                  flags |-> flags, data |-> data]
      /\ encoded' = r
      /\ steps' = encode_steps(typ)
      /\ kind' = IF r.ok THEN "encoded" ELSE "none"
      /\ mut' = NoMut
      /\ wire' = IF r.ok THEN r.ascii ELSE <<>>
      /\ clean' = wire'
      /\ decoded' = NotDecoded

\* a holder of the secret key from seals a plaintext of its own making
Forge(from, to, is_file, plain, nonce) ==
  /\ call = NoCall
  /\ call' = [op |-> "forge", from |-> from, to |-> to, file |-> is_file,
              plain |-> plain]
  /\ encoded' = NoResult
  /\ steps' = <<>>
  /\ kind' = "forged"
  /\ mut' = NoMut
  /\ wire' = frame(is_file,
                   public_key(from) \o nonce \o box_seal(plain, nonce, to, from))
  /\ clean' = wire'
  /\ decoded' = NotDecoded

\* a text from anywhere
Raw(t) ==
  /\ call = NoCall
  /\ call' = [op |-> "raw"]
  /\ encoded' = NoResult
  /\ steps' = <<>>
  /\ kind' = "raw"
  /\ mut' = NoMut
  /\ wire' = t
  /\ clean' = t
  /\ decoded' = NotDecoded

HeaderLen(t) == IF starts_with(t, HEADER_MESSAGE) THEN Len(HEADER_MESSAGE) ELSE Len(HEADER_FILE)
HeaderOf(t) == Take(t, HeaderLen(t))
\* the bytes between ':' and ']' of an envelope encode made
PayloadOf(t) == base64_decode(SubSeq(t, HeaderLen(t) + 2, Len(t) - 1)).bytes

Touch(m, t) ==
  /\ kind = "encoded"
  /\ decoded = NotDecoded
  /\ kind' = m
  /\ wire' = t
  /\ clean' = t
  /\ UNCHANGED <<call, encoded, steps, decoded>>

\* the header token replaced by the other variant's
SwapHeader ==
  /\ mut' = [how |-> "swap"]
  /\ Touch("swapped",
           (IF starts_with(wire, HEADER_MESSAGE) THEN HEADER_FILE ELSE HEADER_MESSAGE)
           \o Skip(wire, HeaderLen(wire)))

Mangled(t, m) ==
  LET h == HeaderOf(t)
      rest == Skip(t, HeaderLen(t))
  IN  CASE m.how = "nofooter" -> Take(t, Len(t) - 1)
        [] m.how = "nocolon" -> h \o Skip(rest, 1)
        [] m.how = "badcolon" -> h \o <<59>> \o Skip(rest, 1)
        [] m.how = "foreign" -> <<91, 71, 81, 71, 49, 45, 73, 68>> \o rest
        [] m.how = "lower" -> <<91, 103>> \o Skip(t, 2)
        [] m.how = "badb64" -> h \o COLON \o <<42>> \o Skip(rest, 2)
        [] OTHER -> h \o COLON \o base64_encode(Take(PayloadOf(t), m.len)) \o FOOTER

\* the envelope damaged in transit
Mangle(m) ==
  /\ mut' = m
  /\ Touch("mangled", Mangled(wire, m))

FlipIn(bytes, i) ==
  [j \in 1..Len(bytes) |->
     IF j = (i \div 8) + 1 THEN Xor(bytes[j], Pow2(i % 8)) ELSE bytes[j]]

\* bit i of the payload flipped and the payload framed again
FlipBit(i) ==
  /\ mut' = [how |-> "flip", bit |-> i]
  /\ Touch("flipped",
           HeaderOf(wire) \o COLON \o base64_encode(FlipIn(PayloadOf(wire), i)) \o FOOTER)

CountSpaces(t) == Len(t) - Len(SelectSeq(t, LAMBDA c : c \notin WhiteSpaces))

\* a whitespace character inserted after the first pos characters
InsertWhitespace(pos, c) ==
  /\ kind # "none"
  /\ decoded = NotDecoded
  /\ CountSpaces(wire) - CountSpaces(clean) < MaxSpaces
  /\ wire' = Take(wire, pos) \o <<c>> \o Skip(wire, pos)
  /\ UNCHANGED <<call, encoded, steps, kind, mut, clean, decoded>>

\* a call of decode on the text in transit
Decode(myself) ==
  /\ kind # "none"
  /\ decoded = NotDecoded
  /\ decoded' = [done |-> TRUE, myself |-> myself, res |-> decode(myself, wire)]
  /\ UNCHANGED <<call, encoded, steps, kind, mut, clean, wire>>

\* the call is over and its buffers dropped: the codec keeps nothing
Return ==
  /\ call # NoCall
  /\ decoded.done \/ kind = "none"
  /\ call' = NoCall
  /\ encoded' = NoResult
  /\ steps' = <<>>
  /\ kind' = "none"
  /\ mut' = NoMut
  /\ wire' = <<>>
  /\ clean' = <<>>
  /\ decoded' = NotDecoded

Next ==
  \/ \E from \in SecretKeys, to \in PublicKeys, typ \in Types,
        flags \in EncodeFlags, data \in Data, nonce \in Nonces :
       Encode(from, to, typ, flags, data, nonce)
  \/ \E from \in SecretKeys, to \in PublicKeys, is_file \in BOOLEAN,
        plain \in ForgedPlain :
       Forge(from, to, is_file, plain, NonceOf(1))
  \/ \E t \in RawTexts : Raw(t)
  \/ SwapHeader
  \/ \E m \in Mangles : Mangle(m)
  \/ \E myself \in SecretKeys : Decode(myself)
  \/ Return

Spec == Init /\ [][Next]_vars

\* Tamper detection: the envelopes of the codec's own test, every bit
TamperData == {<<>>, Repeat(65, 8)} \cup BoundedSeq({65}, MaxDataLen)

NextTamper ==
  \/ \E typ \in {TypeMessage, TypeFile(<<65>>)}, flags \in EncodeFlags,
        data \in TamperData :
       Encode(3, public_key(5), typ, flags, data, NonceOf(1))
  \/ \E i \in 0..(8 * Len(PayloadOf(wire)) - 1) : FlipBit(i)
  \/ \E myself \in SecretKeys : Decode(myself)
  \/ Return

SpecTamper == Init /\ [][NextTamper]_vars

\* Whitespace: an envelope and other texts with whitespace inserted anywhere
SpacedTexts ==
  {<<>>, <<32>>, HEADER_MESSAGE \o COLON \o FOOTER,
   HEADER_FILE \o COLON \o <<65, 65, 65, 65>> \o FOOTER,
   <<91, 71, 81, 71, 49, 32, 45, 70, 73, 76, 69, 58, 93>>}

NextSpace ==
  \/ Encode(3, public_key(5), TypeMessage, "None", <<104, 105>>, NonceOf(1))
  \/ \E t \in SpacedTexts : Raw(t)
  \/ \E pos \in 0..Len(wire), c \in WhiteSpaces : InsertWhitespace(pos, c)
  \/ \E myself \in SecretKeys : Decode(myself)
  \/ Return

SpecSpace == Init /\ [][NextSpace]_vars

----------------------------------------------------------------------------
(* Properties *)

R == decoded.res
ByRecipient == decoded.done /\ call.op \in {"encode", "forge"}
               /\ public_key(decoded.myself) = call.to

\* the rules of a file name, as the specification words them
NameValid(n) ==
  /\ Len(n) >= 1
  /\ Len(n) <= 32
  /\ \A i \in 1..Len(n) : n[i] # 47 /\ n[i] # 92
  /\ \A i \in 1..(Len(n) - 1) : ~(n[i] = 46 /\ n[i + 1] = 46)

\* C1: decode by the recipient of what encode made returns the sender's
\* public key, the variant, the file name and exactly the data; encode
\* succeeds for a Message and for a File with a valid name.
RoundTrip ==
  /\ (call.op = "encode" /\ (call.typ.file => NameValid(call.typ.file_name)))
       => encoded.ok
  /\ (kind = "encoded" /\ ByRecipient)
       => R = [ok |-> TRUE,
               sender |-> public_key(call.from),
               data |-> IF call.typ.file
                        THEN [file |-> TRUE, file_name |-> call.typ.file_name,
                              contents |-> call.data]
                        ELSE [file |-> FALSE, contents |-> call.data]]

\* C2: an envelope with one bit of its payload flipped (any bit but 255) is
\* refused by the recipient with AuthFailure or InvalidOuterEncoding.
TamperDetected ==
  (kind = "flipped" /\ mut.bit # 255 /\ ByRecipient)
    => (~R.ok /\ R.err \in {"AuthFailure", "InvalidOuterEncoding"})

TamperDetectedWitness ==
  /\ kind = "flipped"
  /\ mut.bit > 8 * (PUBLICKEYBYTES + NONCEBYTES + MACBYTES)
  /\ ByRecipient
  /\ ~R.ok
  /\ ~call.typ.file

\* the text is well framed: header, colon, base64, bracket, 32 + 24 bytes
WellFramed(t) ==
  LET head == parse_header(remove_whitespace(t))
  IN  /\ head.ok
      /\ unframe(head.rest).ok
      /\ Len(unframe(head.rest).bytes) >= PUBLICKEYBYTES + NONCEBYTES

\* the tag of a well-framed text verifies under the key sk
TagVerifies(t, sk) ==
  LET parts == split_payload(unframe(parse_header(remove_whitespace(t)).rest).bytes)
  IN  box_open(parts.boxed, parts.nonce, parts.sender, sk).ok

\* C3: a well-framed envelope whose tag does not verify is refused with
\* AuthFailure.
AuthFailureKind ==
  (decoded.done /\ WellFramed(wire) /\ ~TagVerifies(wire, decoded.myself))
    => R = Err("AuthFailure")

\* C4: decode returns Ok or one of the five error kinds, and never faults.
DecodeTotal == decoded.done => (R.ok \/ R.err \in GqgError)

DecodeTotalWitness ==
  /\ decoded.done
  /\ kind = "mangled"
  /\ mut.how = "short"
  /\ mut.len >= PUBLICKEYBYTES
  /\ mut.len < PUBLICKEYBYTES + NONCEBYTES
  /\ ~R.ok

\* the text is malformed, as the specification words it
Malformed(text) ==
  LET t == SelectSeq(text, LAMBDA c : ~is_whitespace(c))
      hl == IF starts_with(t, HEADER_MESSAGE) THEN Len(HEADER_MESSAGE)
            ELSE Len(HEADER_FILE)
      region == SubSeq(t, hl + 2, Len(t) - 1)
  IN  \/ ~(starts_with(t, HEADER_MESSAGE) \/ starts_with(t, HEADER_FILE))
      \/ t[Len(t)] # 93
      \/ Len(t) <= hl
      \/ t[hl + 1] # 58
      \/ ~base64_decode(region).ok
      \/ Len(base64_decode(region).bytes) < 32 + 24

\* C5: a malformed envelope is refused with InvalidOuterEncoding.
MalformedRefused ==
  (decoded.done /\ Malformed(wire)) => R = Err("InvalidOuterEncoding")

MalformedRefusedWitness ==
  /\ decoded.done
  /\ kind = "mangled"
  /\ mut.how = "badcolon"
  /\ ByRecipient
  /\ R = Err("InvalidOuterEncoding")

\* C6: encode of a File with an invalid name returns InvalidFileName before
\* a nonce is drawn or anything is sealed, and makes no text; encode of a
\* Message never returns InvalidFileName.
FileNameRejected ==
  call.op = "encode" =>
    /\ (call.typ.file /\ ~NameValid(call.typ.file_name))
         => /\ encoded = Err("InvalidFileName")
            /\ \A i \in 1..Len(steps) : steps[i] \notin {"gen_nonce", "seal", "frame"}
            /\ wire = <<>>
    /\ ~call.typ.file => encoded # Err("InvalidFileName")

FileNameRejectedWitness ==
  /\ call.op = "encode"
  /\ call.typ.file
  /\ call.typ.file_name = <<65, 46, 46>>
  /\ encoded = Err("InvalidFileName")

\* C7: a File that decode returns carries a name of 1 to 32 bytes with no
\* path separator and no "..".
DecodedNameValid ==
  (decoded.done /\ R.ok /\ R.data.file) => NameValid(R.data.file_name)

\* the plaintext that was sealed
Sealed ==
  IF call.op = "forge" THEN call.plain
  ELSE datastream(call.typ, call.flags, call.data)
SealedAsFile == IF call.op = "forge" THEN call.file ELSE call.typ.file

\* the first 0x00 of s, 1-based; 0 if none
FirstZero(s) ==
  IF \E i \in 1..Len(s) : s[i] = 0
  THEN CHOOSE i \in 1..Len(s) : s[i] = 0 /\ \A j \in 1..(i - 1) : s[j] # 0
  ELSE 0

\* C8: after the name and its separator, no byte left is
\* InvalidInnerEncoding, tag 0 the rest unchanged, tag 1 the rest
\* decompressed or DecompressFailure, any other tag InvalidInnerEncoding.
TagHandling ==
  (kind \in {"encoded", "forged"} /\ ByRecipient
     /\ (SealedAsFile => /\ FirstZero(Sealed) > 0
                         /\ from_utf8_ok(Take(Sealed, FirstZero(Sealed) - 1))))
    => LET rest == IF SealedAsFile THEN Skip(Sealed, FirstZero(Sealed)) ELSE Sealed
       IN  IF rest = <<>> THEN R = Err("InvalidInnerEncoding")
           ELSE IF rest[1] = 0 THEN R.ok /\ R.data.contents = Tail(rest)
           ELSE IF rest[1] = 1
           THEN IF decompress(Tail(rest)).ok
                THEN R.ok /\ R.data.contents = decompress(Tail(rest)).bytes
                ELSE R = Err("DecompressFailure")
           ELSE R = Err("InvalidInnerEncoding")

TagHandlingWitness ==
  /\ kind = "forged"
  /\ ByRecipient
  /\ call.file
  /\ call.plain = <<65, 0, 2, 65>>
  /\ R = Err("InvalidInnerEncoding")

\* C9: a text with whitespace inserted decodes to what the text decodes to.
WhitespaceIgnored ==
  decoded.done => R = decode(decoded.myself, clean)

WhitespaceIgnoredWitness ==
  /\ decoded.done
  /\ kind = "encoded"
  /\ wire # clean
  /\ R.ok

\* C10: an envelope with its header token replaced by the other variant's
\* is never decoded.
VariantBound == (kind = "swapped" /\ decoded.done) => ~R.ok

====
